---- MODULE Spec2Model ----
(***************************************************************************)
(* A model of pixel.py: the three image transforms (XOR-with-flip pixel    *)
(* codec, Fourier spectrum codec, Laplacian edge filter), the image I/O    *)
(* wrappers, the integer prompt and the interactive driver main().         *)
(*                                                                         *)
(* An image array is a sequence of rows, a row a sequence of pixels and a  *)
(* pixel a sequence of samples, one per channel: a 2-D (grayscale) numpy   *)
(* array is the case of one sample per pixel.                              *)
(***************************************************************************)
EXTENDS Integers, Sequences, FiniteSets, TLC

VARIABLES
    x,      \* a transform on its own: the input array
    k,      \* a transform on its own: the key
    y,      \* a transform on its own: the output of the first transform
    z,      \* a transform on its own: the output of the second transform
    fpc,    \* a transform on its own: how far the pipeline has been applied
    disk,   \* the file system: file name -> content
    disk0,          \* the file system when main() started
    writable,       \* whether the file system accepts writes
    pc,             \* main(): the statement about to run
    choice,         \* main(): locals, as assigned
    operation,
    path,
    key,
    spectrum_file,
    output,
    img_array,
    mode,
    result,
    console,        \* the messages printed so far
    calls,          \* the I/O and transform calls made so far
    retries         \* the entries get_int_input has turned down

honly == <<x, k, y, z, fpc>>

monly == <<disk0, writable, pc, choice, operation, path, key,
           spectrum_file, output, img_array, mode, result, console, calls,
           retries>>

vars == <<honly, disk, monly>>

-----------------------------------------------------------------------------
(* Bounds of the model *)

\* An input array holds at most MaxCells samples (rows * columns * channels).
MaxCells == 4

\* get_int_input is followed through at most MaxRetries rejected entries.
MaxRetries == 2

\* Floating-point values are held in units of 1/Scale.
Scale == 16

\* The sample values the generated arrays are filled with: all bits clear,
\* a mixed bit pattern (01011010) and all bits set.
Samples == {0, 90, 255}

\* The largest 8-bit unsigned value; also get_int_input's default max_val.
U8Max == 255

Keys == 0..U8Max

-----------------------------------------------------------------------------
(* Arrays *)

\* Python's None, as the array with no rows (no image array is empty).
None == << >>

Rows(a) == Len(a)
Cols(a) == Len(a[1])
Chans(a) == Len(a[1][1])

SameShape(a, b) ==
    /\ Rows(a) = Rows(b)
    /\ \A r \in 1..Rows(a) :
          /\ Len(a[r]) = Len(b[r])
          /\ \A c \in 1..Len(a[r]) : Len(a[r][c]) = Len(b[r][c])

Shapes ==
    { s \in (1..MaxCells) \X (1..MaxCells) \X (1..MaxCells) :
        s[1] * s[2] * s[3] <= MaxCells }

ArraysOf(s) == [1..s[1] -> [1..s[2] -> [1..s[3] -> Samples]]]

\* The 2x2 grayscale image [[10,20],[30,40]].
ExampleImage == << << <<10>>, <<20>> >>, << <<30>>, <<40>> >> >>

Images == (UNION { ArraysOf(s) : s \in Shapes }) \cup {ExampleImage}

GrayImages == { a \in Images : Chans(a) = 1 }

-----------------------------------------------------------------------------
(* Files *)

\* A path is the sequence of its name and suffixes: <<"spec", ".npy">>.
InPath == <<"in", ".png">>
NoPath == <<"nofile", ".png">>
OutPath == <<"out", ".png">>
OutBad == <<"out", ".xyz">>
SpecNpy == <<"spec", ".npy">>
SpecBare == <<"spec">>

FileNames == {InPath, NoPath, OutPath, OutBad, SpecNpy, SpecBare}

Absent == [kind |-> "absent"]
Garbage == [kind |-> "garbage"]

EmptyDisk == [f \in FileNames |-> Absent]

\* What an 8-bit PIL image of n channels reports as its mode.
ModeOf(n) == <<"L", "LA", "RGB", "RGBA">>[n]

ImageFile(a) == [kind |-> "image", mode |-> ModeOf(Chans(a)), data |-> a]

\* The build's conversion of an out-of-range float to uint8 is undefined in C:
\* x86 builds keep the low byte, ARM builds saturate.
Builds == {"wrap", "saturate"}

CastU8(v, build) ==
    IF v \in 0..U8Max THEN v
    ELSE IF build = "wrap" THEN v % (U8Max + 1)
    ELSE IF v < 0 THEN 0 ELSE U8Max

\* The key before get_int_input has returned one.
NoKey == -1

\* main() is not running: the transforms are studied on their own.
MainIdle ==
    /\ disk0 = EmptyDisk
    /\ writable = TRUE
    /\ pc = "off"
    /\ choice = << >>
    /\ operation = << >>
    /\ path = << >>
    /\ key = NoKey
    /\ spectrum_file = << >>
    /\ output = << >>
    /\ img_array = None
    /\ mode = None
    /\ result = None
    /\ console = << >>
    /\ calls = << >>
    /\ retries = 0

\* No transform is being studied on its own: main() is running.
HarnessIdle ==
    /\ x = None
    /\ k = 0
    /\ y = None
    /\ z = None
    /\ fpc = "off"

-----------------------------------------------------------------------------
(* Pixel-level encryption *)

\* a ^ b on non-negative integers, bit by bit.
RECURSIVE BitXor(_, _)
BitXor(a, b) ==
    IF a = 0 /\ b = 0 THEN 0
    ELSE (((a % 2) + (b % 2)) % 2) + 2 * BitXor(a \div 2, b \div 2)

\* np.flipud: reverse axis 0 (the rows).
flipud(a) == [r \in 1..Len(a) |-> a[Len(a) + 1 - r]]

\* array ^ key: the scalar is broadcast to every element.
XorArray(a, ky) ==
    [r \in 1..Len(a) |->
        [c \in 1..Len(a[r]) |->
            [ch \in 1..Len(a[r][c]) |-> BitXor(a[r][c][ch], ky)]]]

\* A slip: the key is added (wrapping at 8 bits) instead of XOR-ed.
encrypt_pixels_add(arr, ky) ==
    [r \in 1..Len(arr) |->
        [c \in 1..Len(arr[r]) |->
            [ch \in 1..Len(arr[r][c]) |->
                (flipud(arr)[r][c][ch] + ky) % (U8Max + 1)]]]

\* A slip: the rows are not reversed.
encrypt_pixels_noflip(arr, ky) == XorArray(arr, ky)

encrypt_pixels(arr, ky) == XorArray(flipud(arr), ky)

\* A slip: the XOR is undone but the rows are not reversed back.
decrypt_pixels_noflip(arr, ky) == XorArray(arr, ky)

decrypt_pixels(arr, ky) == flipud(XorArray(arr, ky))

-----------------------------------------------------------------------------
(* The pixel codec applied to every bounded array and every key *)

PixelInit ==
    /\ MainIdle
    /\ disk = EmptyDisk
    /\ x \in Images
    /\ k \in Keys
    /\ y = None
    /\ z = None
    /\ fpc = "input"

PixelEncrypt ==
    /\ fpc = "input"
    /\ y' = encrypt_pixels(x, k)
    /\ fpc' = "encrypted"
    /\ UNCHANGED <<x, k, z, disk, monly>>

PixelDecrypt ==
    /\ fpc = "encrypted"
    /\ z' = decrypt_pixels(y, k)
    /\ fpc' = "decrypted"
    /\ UNCHANGED <<x, k, y, disk, monly>>

PixelNext == PixelEncrypt \/ PixelDecrypt

SpecPixel == PixelInit /\ [][PixelNext]_vars

-----------------------------------------------------------------------------
(* Claims about the pixel codec *)

\* Bit i (0 = least significant) of n.
RECURSIVE Pow2(_)
Pow2(i) == IF i = 0 THEN 1 ELSE 2 * Pow2(i - 1)
Bit(n, i) == (n \div Pow2(i)) % 2

\* C1: for every 8-bit image x (any shape, multi-channel included) and every
\* key k in 0..255, decrypt_pixels(encrypt_pixels(x, k), k) is x, element for
\* element and with the same dimensions.
C1_RoundTrip ==
    fpc = "decrypted" => (SameShape(z, x) /\ z = x)

\* C1 witness: a round trip of an image of at least two distinct rows under a
\* non-zero key has been completed.
C1_Witness ==
    /\ fpc = "decrypted"
    /\ Rows(x) >= 2
    /\ x[1] # x[2]
    /\ k # 0
    /\ y # x

\* C2: encrypt_pixels(x, k) has the shape of x, and its sample at row r,
\* column c is x[R+1-r][c] XOR k (1-based rows), every result in 0..255;
\* [[10,20],[30,40]] with key 5 gives [[27,45],[15,17]].
C2_EncryptContract ==
    fpc \in {"encrypted", "decrypted"} =>
        /\ SameShape(y, x)
        /\ \A r \in 1..Rows(x) : \A c \in 1..Cols(x) : \A ch \in 1..Chans(x) :
              /\ y[r][c][ch] \in 0..U8Max
              /\ \A i \in 0..7 :
                    Bit(y[r][c][ch], i)
                        = (IF Bit(x[Rows(x) + 1 - r][c][ch], i) = Bit(k, i)
                           THEN 0 ELSE 1)
        /\ (x = ExampleImage /\ k = 5) =>
              y = << << <<27>>, <<45>> >>, << <<15>>, <<17>> >> >>

\* C2 witness: the example image has been encrypted with key 5.
C2_Witness ==
    /\ fpc = "encrypted"
    /\ x = ExampleImage
    /\ k = 5
    /\ y = << << <<27>>, <<45>> >>, << <<15>>, <<17>> >> >>

\* The decryption the claim C10 speaks of: the same order as encrypt_pixels,
\* flip first and XOR second.
SameOrderDecrypt(arr, ky) == XorArray(flipud(arr), ky)

\* C10 as stated: some image and key exist for which decrypting with the same
\* order as encryption (flip, then XOR) fails to recover the image.
C10_OrderRequired ==
    fpc = "encrypted" =>
        \E a \in Images, ky \in Keys :
            SameOrderDecrypt(encrypt_pixels(a, ky), ky) # a

\* C10 amended: the order is immaterial. Decrypting the output of
\* encrypt_pixels with flip-then-XOR recovers the image exactly, and gives the
\* same array as decrypt_pixels.
C10_OrderImmaterial ==
    fpc = "encrypted" =>
        /\ SameOrderDecrypt(y, k) = x
        /\ SameOrderDecrypt(y, k) = decrypt_pixels(y, k)

\* C10 witness: an encryption that both reverses distinct rows and changes
\* sample values, so that the two orders could differ if they ever did.
C10_Witness ==
    /\ fpc = "encrypted"
    /\ Rows(x) >= 2
    /\ x[1] # x[Rows(x)]
    /\ k \notin {0, U8Max}
    /\ Chans(x) >= 2

-----------------------------------------------------------------------------
(* Laplacian (one-way filter) *)

Abs(n) == IF n < 0 THEN -n ELSE n

\* cv2's default border (BORDER_REFLECT_101) for index i of an axis of n
\* elements, 1-based: the edge element itself is not repeated.
Border(i, n) ==
    IF n = 1 THEN 1
    ELSE IF i < 1 THEN 2 - i
    ELSE IF i > n THEN 2 * n - i
    ELSE i

\* cv2.Laplacian(img, CV_64F) with the default aperture: the 3x3 kernel
\* [0 1 0; 1 -4 1; 0 1 0], computed without saturation.
Laplacian(a) ==
    [r \in 1..Rows(a) |->
        [c \in 1..Cols(a) |->
            a[Border(r - 1, Rows(a))][c][1] + a[Border(r + 1, Rows(a))][c][1]
            + a[r][Border(c - 1, Cols(a))][1] + a[r][Border(c + 1, Cols(a))][1]
            - 4 * a[r][c][1]]]

\* A slip: the absolute Laplacian is returned without the cast to uint8.
apply_laplacian_nocast(arr, build) ==
    [r \in 1..Rows(arr) |->
        [c \in 1..Cols(arr) |-> <<Abs(Laplacian(arr)[r][c])>>]]

apply_laplacian(arr, build) ==
    LET lap == Laplacian(arr)
    IN  [r \in 1..Rows(arr) |->
            [c \in 1..Cols(arr) |-> <<CastU8(Abs(lap[r][c]), build)>>]]

-----------------------------------------------------------------------------
(* Fourier transform encryption *)

\* The lengths whose DFT has every twiddle factor in {1, -1, i, -i}: for
\* these the transform of integer samples is an exact Gaussian integer.
FourierDims == {1, 2, 4}

Cx(re, im) == [re |-> re, im |-> im]
CAdd(a, b) == Cx(a.re + b.re, a.im + b.im)
CMul(a, b) == Cx(a.re * b.re - a.im * b.im, a.re * b.im + a.im * b.re)

\* exp(-2 pi i j / n) for n in FourierDims, as quarter turns.
Twiddle(n, j) ==
    LET q == ((4 \div n) * j) % 4
    IN  << Cx(1, 0), Cx(0, -1), Cx(-1, 0), Cx(0, 1) >>[q + 1]

Conj(a) == Cx(a.re, -a.im)

RECURSIVE CSum(_, _)
CSum(f, n) == IF n = 0 THEN Cx(0, 0) ELSE CAdd(f[n], CSum(f, n - 1))

\* The 2-D DFT kernel over a 2-D array g of complex numbers; inv selects the
\* conjugate twiddles (the result is not yet divided by the element count).
Dft2(g, inv) ==
    LET R == Len(g)
        C == Len(g[1])
        W(n, j) == IF inv THEN Conj(Twiddle(n, j)) ELSE Twiddle(n, j)
    IN  [u \in 1..R |->
            [v \in 1..C |->
                CSum([i \in 1..(R * C) |->
                        LET r == ((i - 1) \div C) + 1
                            c == ((i - 1) % C) + 1
                        IN  CMul(g[r][c],
                                 CMul(W(R, (u - 1) * (r - 1)),
                                      W(C, (v - 1) * (c - 1))))],
                     R * C)]]

\* np.fft.fft2 of a grayscale uint8 array.
fft2(arr) ==
    Dft2([r \in 1..Rows(arr) |->
            [c \in 1..Cols(arr) |-> Cx(arr[r][c][1], 0)]], FALSE)

\* np.fft.ifft2 of a 2-D complex array, in units of 1/Scale, with the
\* round-off err[r][c] of the floating-point computation added.
ifft2(f, err) ==
    LET R == Len(f)
        C == Len(f[1])
        s == Dft2(f, TRUE)
    IN  [r \in 1..R |->
            [c \in 1..C |->
                CAdd(Cx((s[r][c].re * Scale) \div (R * C),
                        (s[r][c].im * Scale) \div (R * C)),
                     err[r][c])]]

\* The round-off of one element, in units of 1/Scale.
RoundOff == {Cx(0, 0), Cx(1, 0), Cx(-1, 0), Cx(0, 1), Cx(0, -1)}

ErrFields(R, C) == [1..R -> [1..C -> RoundOff]]

\* floor(sqrt(n)).
RECURSIVE ISqrt(_)
ISqrt(n) ==
    IF n < 2 THEN n
    ELSE LET s == 2 * ISqrt(n \div 4)
         IN  IF (s + 1) * (s + 1) <= n THEN s + 1 ELSE s

\* LogThreshold[n + 1] is the least integer q with 20 * ln(sqrt(q) + 1) >= n.
LogThreshold ==
    << 0, 1, 1, 1, 1, 1, 1, 1,
       1, 1, 1, 1, 1, 1, 2, 2,
       2, 2, 3, 3, 3, 4, 5, 5,
       6, 7, 8, 9, 10, 11, 13, 14,
       16, 18, 21, 23, 26, 29, 33, 37,
       41, 46, 52, 58, 65, 73, 81, 90,
       101, 113, 126, 140, 156, 174, 193, 215,
       239, 266, 295, 328, 365, 405, 450, 499,
       554, 615, 682, 757, 839, 931, 1032, 1144,
       1268, 1405, 1557, 1725, 1910, 2116, 2343, 2595,
       2873, 3181, 3522, 3899, 4315, 4776, 5286, 5849,
       6473, 7162, 7925, 8768, 9700, 10730, 11870, 13130,
       14523, 16064, 17767, 19650, 21731, 24032, 26577, 29389,
       32499, 35936, 39736, 43936, 48579, 53712, 59386, 65658,
       72591, 80255, 88725, 98089, 108439, 119879, 132524, 146501,
       161949, 179025, 197899, 218760, 241818, 267303, 295471, 326604,
       361015, 399048, 441085, 487545, 538896, 595652, 658380, 727710,
       804336, 889025, 982626, 1086077, 1200413, 1326779, 1466442, 1620799,
       1791397, 1979945, 2188329, 2418637, 2673175, 2954491, 3265403, 3609023,
       3988792, 4408512, 4872386, 5385057, 5951658, 6577863, 7269939, 8034816,
       8880150, 9814405, 10846932, 11988069, 13249239, 14643066, 16183503, 17885970,
       19767510, 21846956, 24145125, 26685019, 29492064, 32594357, 36022951, 39812165,
       43999927, 48628154, 53743174, 59396183, 65643764, 72548453, 80179358, 88612860,
       97933371, 108234180, 119618390, 132199944, 146104773, 161472050, 178455583, 197225361,
       217969247, 240894864, 266231671, 294233259, 325179890, 359381302, 397179807, 438953720,
       485121144, 536144154, 592533423, 654853331, 723727616, 799845614, 883969160, 976940213,
       1079689282, 1193244737, 1318743105, 1457440443, 1610724907, 1780130651, 1967353174 >>

\* floor(20 * np.log(np.abs(c) + 1)) of a Gaussian integer c: the natural
\* logarithm, truncated as astype(np.uint8) truncates (the value stays below
\* 256 for every magnitude a 32-bit integer can hold).
Log20(c) ==
    LET q == c.re * c.re + c.im * c.im
    IN  CHOOSE n \in 0..(Len(LogThreshold) - 1) :
            /\ LogThreshold[n + 1] <= q
            /\ (n + 1 = Len(LogThreshold) \/ LogThreshold[n + 2] > q)

\* np.fft.fftshift over both axes: element j comes from j - n \div 2.
fftshift(f) ==
    LET R == Len(f)
        C == Len(f[1])
    IN  [r \in 1..R |->
            [c \in 1..C |->
                f[((r - 1 - (R \div 2)) % R) + 1][((c - 1 - (C \div 2)) % C) + 1]]]

\* np.save appends ".npy" to a file name that does not end with it.
NpyName(file) ==
    IF file[Len(file)] = ".npy" THEN file ELSE Append(file, ".npy")

SpectrumFile(f) == [kind |-> "npy", dtype |-> "complex128", ndim |-> 2, data |-> f]

\* encrypt_fourier: the disk after np.save and the returned magnitude image.
\* np.save raises when the file cannot be written, and nothing catches it:
\* the exception leaves encrypt_fourier with nothing written or returned.
encrypt_fourier(dsk, arr, sfile, can_write) ==
    LET f == fft2(arr)
        sh == fftshift(f)
    IN  IF ~can_write
        THEN [raised |-> TRUE, disk |-> dsk, ret |-> None]
        ELSE [raised |-> FALSE,
              disk |-> [dsk EXCEPT ![NpyName(sfile)] = SpectrumFile(f)],
              ret |-> [r \in 1..Len(f) |->
                         [c \in 1..Len(f[1]) |-> <<Log20(sh[r][c])>>]]]

\* np.uint8(np.abs(v)) of a 2-D array of complex values in units of 1/Scale.
AbsU8(v, build) ==
    [r \in 1..Len(v) |->
        [c \in 1..Len(v[1]) |->
            CastU8(ISqrt(v[r][c].re * v[r][c].re + v[r][c].im * v[r][c].im)
                       \div Scale, build)]]

\* A slip: the inverse transform is not taken; the magnitude of the stored
\* spectrum itself is returned.
decrypt_fourier_noinverse(dsk, sfile, err, build) ==
    LET file == dsk[sfile]
        g == [r \in 1..Len(file.data) |->
                [c \in 1..Len(file.data[1]) |->
                    Cx(file.data[r][c].re * Scale, file.data[r][c].im * Scale)]]
        m == AbsU8(g, build)
    IN  IF file.kind # "npy" \/ file.ndim # 2 THEN None
        ELSE [r \in 1..Len(m) |-> [c \in 1..Len(m[1]) |-> <<m[r][c]>>]]

\* decrypt_fourier: None when np.load or np.fft.ifft2 raises, else the uint8
\* array. np.load raises on a missing or unreadable file; ifft2 raises on an
\* array of fewer than two axes, transforms the last two axes of an array of
\* three, and accepts a real array as it accepts a complex one.
decrypt_fourier(dsk, sfile, err, build) ==
    LET file == dsk[sfile]
    IN  IF file.kind # "npy" THEN None
        ELSE IF file.ndim < 2 THEN None
        ELSE IF file.ndim = 2
            THEN LET m == AbsU8(ifft2(file.data, err), build)
                 IN  [r \in 1..Len(m) |-> [c \in 1..Len(m[1]) |-> <<m[r][c]>>]]
        ELSE [p \in 1..Len(file.data) |->
                AbsU8(ifft2(file.data[p], err), build)]

-----------------------------------------------------------------------------
(* The Laplacian filter applied to every bounded grayscale array *)

LaplaceInit ==
    /\ MainIdle
    /\ disk = EmptyDisk
    /\ x \in GrayImages
    /\ k = 0
    /\ y = None
    /\ z = None
    /\ fpc = "input"

LaplaceApply ==
    /\ fpc = "input"
    /\ \E build \in Builds : y' = apply_laplacian(x, build)
    /\ fpc' = "filtered"
    /\ UNCHANGED <<x, k, z, disk, monly>>

LaplaceNext == LaplaceApply

SpecLaplace == LaplaceInit /\ [][LaplaceNext]_vars

\* C7: apply_laplacian(x) has the height and width of x, every output sample
\* lies in 0..255, and each is the absolute discrete Laplacian at that pixel
\* cast to uint8: the value itself when it fits, and one of the casts a build
\* can produce when it exceeds 255.
C7_LaplacianContract ==
    fpc = "filtered" =>
        /\ SameShape(y, x)
        /\ \A r \in 1..Rows(x) : \A c \in 1..Cols(x) :
              LET up == IF Rows(x) = 1 THEN r ELSE IF r = 1 THEN 2 ELSE r - 1
                  dn == IF Rows(x) = 1 THEN r
                        ELSE IF r = Rows(x) THEN r - 1 ELSE r + 1
                  lf == IF Cols(x) = 1 THEN c ELSE IF c = 1 THEN 2 ELSE c - 1
                  rt == IF Cols(x) = 1 THEN c
                        ELSE IF c = Cols(x) THEN c - 1 ELSE c + 1
                  d  == x[up][c][1] + x[dn][c][1] + x[r][lf][1] + x[r][rt][1]
                        - 4 * x[r][c][1]
                  a  == IF d < 0 THEN -d ELSE d
              IN  /\ y[r][c][1] \in 0..U8Max
                  /\ a <= U8Max => y[r][c][1] = a
                  /\ a > U8Max => y[r][c][1] \in {a % (U8Max + 1), U8Max}

\* C7 witness: the filter has run on an image with a pixel whose absolute
\* Laplacian exceeds 255 and a pixel whose absolute Laplacian fits.
C7_Witness ==
    /\ fpc = "filtered"
    /\ \E r \in 1..Rows(x), c \in 1..Cols(x) : Abs(Laplacian(x)[r][c]) > U8Max
    /\ \E r \in 1..Rows(x), c \in 1..Cols(x) :
          Abs(Laplacian(x)[r][c]) \in 1..U8Max

-----------------------------------------------------------------------------
(* The Fourier codec applied to every bounded grayscale array *)

FourierImages ==
    { a \in GrayImages : Rows(a) \in FourierDims /\ Cols(a) \in FourierDims }

FourierInit ==
    /\ MainIdle
    /\ disk = EmptyDisk
    /\ x \in FourierImages
    /\ k = 0
    /\ y = None
    /\ z = None
    /\ fpc = "input"

FourierEncrypt ==
    /\ fpc = "input"
    /\ \E sfile \in {SpecNpy, SpecBare} :
          LET e == encrypt_fourier(disk, x, sfile, TRUE)
          IN  /\ disk' = e.disk
              /\ y' = e.ret
    /\ fpc' = "encrypted"
    /\ UNCHANGED <<x, k, z, monly>>

\* The decryption reads the file the encryption wrote.
FourierDecrypt ==
    /\ fpc = "encrypted"
    /\ \E err \in ErrFields(Rows(x), Cols(x)), build \in Builds :
          z' = decrypt_fourier(disk, SpecNpy, err, build)
    /\ fpc' = "decrypted"
    /\ UNCHANGED <<x, k, y, disk, monly>>

FourierNext == FourierEncrypt \/ FourierDecrypt

SpecFourier == FourierInit /\ [][FourierNext]_vars

\* C6: decrypt_fourier on the spectrum file encrypt_fourier wrote returns an
\* 8-bit image of the dimensions of x whose every sample differs from the
\* sample of x by at most 1.
C6_FourierRoundTrip ==
    fpc = "decrypted" =>
        /\ z # None
        /\ SameShape(z, x)
        /\ \A r \in 1..Rows(x) : \A c \in 1..Cols(x) :
              /\ z[r][c][1] \in 0..U8Max
              /\ z[r][c][1] - x[r][c][1] \in {-1, 0, 1}

\* C6 witness: a round trip of a non-constant 2x2 image in which round-off
\* and the truncating cast lost one unit of some sample, while the returned
\* magnitude image differs from the input.
C6_Witness ==
    /\ fpc = "decrypted"
    /\ Rows(x) = 2 /\ Cols(x) = 2
    /\ x[1][1] # x[2][2]
    /\ y # x
    /\ z # x
    /\ \E r \in 1..2, c \in 1..2 : z[r][c][1] = x[r][c][1] - 1

-----------------------------------------------------------------------------
(* Console input: a line is the sequence of its characters *)

RECURSIVE lstrip(_)
lstrip(s) == IF s # << >> /\ Head(s) = " " THEN lstrip(Tail(s)) ELSE s

RECURSIVE rstrip(_)
rstrip(s) ==
    IF s # << >> /\ s[Len(s)] = " " THEN rstrip(SubSeq(s, 1, Len(s) - 1)) ELSE s

\* str.strip()
strip(s) == rstrip(lstrip(s))

\* str.lower(), over the letters the model types.
lower(s) ==
    [i \in 1..Len(s) |->
        IF s[i] = "E" THEN "e" ELSE IF s[i] = "D" THEN "d"
        ELSE IF s[i] = "X" THEN "x" ELSE s[i]]

Digits == <<"0", "1", "2", "3", "4", "5", "6", "7", "8", "9">>

IsDigit(ch) == \E d \in 1..10 : Digits[d] = ch

DigitVal(ch) == (CHOOSE d \in 1..10 : Digits[d] = ch) - 1

RECURSIVE DecimalVal(_)
DecimalVal(s) ==
    IF s = << >> THEN 0
    ELSE 10 * DecimalVal(SubSeq(s, 1, Len(s) - 1)) + DigitVal(s[Len(s)])

\* int(line): surrounding blanks and one sign are accepted, then digits only;
\* anything else raises ValueError.
ParseInt(line) ==
    LET t == strip(line)
        signed == t # << >> /\ Head(t) \in {"+", "-"}
        digits == IF signed THEN Tail(t) ELSE t
    IN  IF digits = << >> \/ \E i \in 1..Len(digits) : ~IsDigit(digits[i])
        THEN [ok |-> FALSE, val |-> 0]
        ELSE [ok |-> TRUE,
              val |-> IF signed /\ Head(t) = "-"
                      THEN -DecimalVal(digits) ELSE DecimalVal(digits)]

\* A slip: the range test is missing, any integer is returned.
get_int_input_norange(line, min_val, max_val) ==
    LET p == ParseInt(line)
    IN  IF ~p.ok THEN [returned |-> FALSE, val |-> NoKey, msg |-> "invalid_int"]
        ELSE [returned |-> TRUE, val |-> p.val, msg |-> ""]

\* One turn of get_int_input's loop on the line typed: the value returned, or
\* the message printed before the prompt is repeated.
get_int_input(line, min_val, max_val) ==
    LET p == ParseInt(line)
    IN  IF ~p.ok THEN [returned |-> FALSE, val |-> NoKey, msg |-> "invalid_int"]
        ELSE IF min_val <= p.val /\ p.val <= max_val
            THEN [returned |-> TRUE, val |-> p.val, msg |-> ""]
        ELSE [returned |-> FALSE, val |-> NoKey, msg |-> "range"]

-----------------------------------------------------------------------------
(* Image handling *)

\* cv2's grayscale reading of one decoded pixel: a single luminance sample
\* is kept, colour samples are weighted 0.299, 0.587, 0.114 (alpha dropped).
ToGray(px) ==
    IF Len(px) <= 2 THEN <<px[1]>>
    ELSE <<(299 * px[1] + 587 * px[2] + 114 * px[3] + 500) \div 1000>>

\* load_image: the (array, mode) returned and the message printed.
\* cv2.imread raises nothing on a missing or unreadable file: it returns
\* None, and load_image returns (None, "L") without a message. Image.open
\* raises, which load_image reports and turns into (None, None).
load_image(dsk, file, as_gray) ==
    LET f == dsk[file]
    IN  IF as_gray
        THEN IF f.kind = "image"
             THEN [img |-> [r \in 1..Rows(f.data) |->
                              [c \in 1..Cols(f.data) |-> ToGray(f.data[r][c])]],
                   mode |-> "L", msg |-> ""]
             ELSE [img |-> None, mode |-> "L", msg |-> ""]
        ELSE IF f.kind = "image"
             THEN [img |-> f.data, mode |-> f.mode, msg |-> ""]
             ELSE [img |-> None, mode |-> None, msg |-> "err_load"]

\* save_image: the disk afterwards, the message printed, and whether a file
\* was written. With mode "L", cv2.imwrite raises on a suffix it has no
\* encoder for and on an array it cannot encode, but only returns False when
\* the file cannot be written, and "saved" is printed all the same; else PIL
\* writes the file or raises. Every exception is caught and reported.
save_image(dsk, array, md, file, can_write) ==
    LET encodable == /\ file[Len(file)] = ".png"
                     /\ IF md = "L" THEN Chans(array) \in {1, 3, 4}
                        ELSE md = ModeOf(Chans(array))
        written == [dsk EXCEPT ![file] = ImageFile(array)]
    IN  IF ~encodable
        THEN [disk |-> dsk, msg |-> "err_save", wrote |-> FALSE]
        ELSE IF can_write
            THEN [disk |-> written, msg |-> "saved", wrote |-> TRUE]
        ELSE IF md = "L"
            THEN [disk |-> dsk, msg |-> "saved", wrote |-> FALSE]
        ELSE [disk |-> dsk, msg |-> "err_save", wrote |-> FALSE]

-----------------------------------------------------------------------------
(* Main interface *)

\* The lines typed at the prompts.
ChoiceLines == { <<"1">>, <<" ", "2">>, <<"3">>, <<"4">>, << >> }
OperationLines == { <<"e">>, <<"d">>, <<"E", " ">>, <<"D">>, <<"x">>, << >> }
KeyLines ==
    { <<"0">>, <<"5">>, <<"2", "5", "5">>, <<" ", "7", " ">>, <<"+", "9">>,
      <<"3", "0", "0">>, <<"2", "5", "6">>, <<"-", "1">>,
      <<"a", "b", "c">>, <<"2", ".", "5">>, << >> }
PathLines == {InPath, NoPath}
SpectrumLines == {SpecNpy, SpecBare}
OutputLines == {OutPath, OutBad}

\* The files main() may find: image files, a file that is no image, and the
\* spectrum files a decryption may be pointed at.
MainImages ==
    { ExampleImage,
      << << <<0>>, <<255>> >> >>,
      << << <<90, 90, 90>> >>, << <<255, 255, 255>> >> >> }

SourceFiles == {Garbage} \cup { ImageFile(a) : a \in MainImages }

NpyFile(dtype, ndim, data) ==
    [kind |-> "npy", dtype |-> dtype, ndim |-> ndim, data |-> data]

Array1D == NpyFile("complex128", 1, << Cx(1, 0), Cx(0, 1) >>)
Array3D ==
    NpyFile("complex128", 3,
            << << <<Cx(8, 0)>>, <<Cx(0, 0)>> >>,
               << <<Cx(4, 0)>>, <<Cx(4, 0)>> >> >>)
ArrayReal2D ==
    NpyFile("float64", 2,
            << << Cx(1, 0), Cx(2, 0) >>, << Cx(3, 0), Cx(4, 0) >> >>)

SpectrumFiles ==
    << Absent, Garbage, Array1D, Array3D, ArrayReal2D,
       SpectrumFile(fft2(ExampleImage)) >>

\* The shape of the planes ifft2 would transform in a stored array.
PlaneShape(f) ==
    IF f.kind # "npy" \/ f.ndim < 2 THEN <<1, 1>>
    ELSE IF f.ndim = 2 THEN <<Len(f.data), Len(f.data[1])>>
    ELSE <<Len(f.data[1]), Len(f.data[1][1])>>

Call(fn, ok, ky, gray) == [fn |-> fn, ok |-> ok, key |-> ky, gray |-> gray]

Say(msg) == IF msg = "" THEN console ELSE Append(console, msg)

MainInit ==
    /\ HarnessIdle
    /\ \E src \in SourceFiles, b \in 1..Len(SpectrumFiles) :
          disk = [EmptyDisk EXCEPT ![InPath] = src, ![SpecNpy] = SpectrumFiles[b]]
    /\ disk0 = disk
    /\ writable \in BOOLEAN
    /\ pc = "choice"
    /\ choice = << >>
    /\ operation = << >>
    /\ path = << >>
    /\ key = NoKey
    /\ spectrum_file = << >>
    /\ output = << >>
    /\ img_array = None
    /\ mode = None
    /\ result = None
    /\ console = << >>
    /\ calls = << >>
    /\ retries = 0

\* choice = input(...).strip(), and the branch taken on it.
Main_Choice ==
    /\ pc = "choice"
    /\ \E line \in ChoiceLines :
          /\ choice' = strip(line)
          /\ IF choice' \in {<<"1">>, <<"2">>}
             THEN pc' = "operation" /\ console' = console
             ELSE IF choice' = <<"3">>
                 THEN pc' = "path" /\ console' = console
             ELSE pc' = "done" /\ console' = Say("invalid_choice")
    /\ UNCHANGED <<honly, disk, disk0, writable, operation, path, key,
                   spectrum_file, output, img_array, mode, result, calls,
                   retries>>

\* operation = input(...).strip().lower(). The pixel branch goes on whatever
\* was typed; the Fourier branch ends on anything but 'e' or 'd'.
Main_Operation ==
    /\ pc = "operation"
    /\ \E line \in OperationLines :
          /\ operation' = lower(strip(line))
          /\ IF choice = <<"1">> \/ operation' = <<"e">>
             THEN pc' = "path" /\ console' = console
             ELSE IF operation' = <<"d">>
                 THEN pc' = "spectrum" /\ console' = console
             ELSE pc' = "done" /\ console' = Say("invalid_op")
    /\ UNCHANGED <<honly, disk, disk0, writable, choice, path, key,
                   spectrum_file, output, img_array, mode, result, calls,
                   retries>>

Main_Path ==
    /\ pc = "path"
    /\ path' \in PathLines
    /\ pc' = IF choice = <<"1">> THEN "key"
             ELSE IF choice = <<"2">> THEN "spectrum" ELSE "output"
    /\ UNCHANGED <<honly, disk, disk0, writable, choice, operation, key,
                   spectrum_file, output, img_array, mode, result, console,
                   calls, retries>>

\* key = get_int_input(...): one line typed. A line turned down prints its
\* message and leaves main() at the same prompt.
Main_Key ==
    /\ pc = "key"
    /\ \E line \in KeyLines :
          LET g == get_int_input(line, 0, U8Max)
          IN  /\ g.returned \/ retries < MaxRetries
              /\ key' = g.val
              /\ console' = Say(g.msg)
              /\ pc' = IF g.returned THEN "output" ELSE "key"
              /\ retries' = IF g.returned THEN retries ELSE retries + 1
    /\ UNCHANGED <<honly, disk, disk0, writable, choice, operation, path,
                   spectrum_file, output, img_array, mode, result, calls>>

Main_Spectrum ==
    /\ pc = "spectrum"
    /\ spectrum_file' \in SpectrumLines
    /\ pc' = "output"
    /\ UNCHANGED <<honly, disk, disk0, writable, choice, operation, path, key,
                   output, img_array, mode, result, console, calls, retries>>

Main_Output ==
    /\ pc = "output"
    /\ output' \in OutputLines
    /\ pc' = IF choice = <<"2">> /\ operation = <<"d">>
             THEN "transform" ELSE "load"
    /\ UNCHANGED <<honly, disk, disk0, writable, choice, operation, path, key,
                   spectrum_file, img_array, mode, result, console, calls,
                   retries>>

\* A slip: main() goes on to the transform although nothing was loaded.
AfterLoad_noabort(img) == "transform"

\* if img_array is None: return
AfterLoad(img) == IF img = None THEN "done" ELSE "transform"

\* img_array, mode = load_image(path[, as_gray=True])
Main_Load ==
    /\ pc = "load"
    /\ LET gray == choice # <<"1">>
           l == load_image(disk, path, gray)
       IN  /\ img_array' = l.img
           /\ mode' = l.mode
           /\ console' = Say(l.msg)
           /\ calls' = Append(calls, Call("load_image", l.img # None, NoKey, gray))
           /\ pc' = AfterLoad(l.img)
    /\ UNCHANGED <<honly, disk, disk0, writable, choice, operation, path, key,
                   spectrum_file, output, result, retries>>

\* The transform of the branch taken.
Main_Pixel ==
    /\ pc = "transform"
    /\ choice = <<"1">>
    /\ IF operation = <<"e">>
       THEN /\ result' = encrypt_pixels(img_array, key)
            /\ calls' = Append(calls, Call("encrypt_pixels", TRUE, key, FALSE))
       ELSE /\ result' = decrypt_pixels(img_array, key)
            /\ calls' = Append(calls, Call("decrypt_pixels", TRUE, key, FALSE))
    /\ pc' = "save"
    /\ UNCHANGED <<honly, disk, disk0, writable, choice, operation, path, key,
                   spectrum_file, output, img_array, mode, console, retries>>

\* result = encrypt_fourier(img_array, spectrum_file); an exception raised by
\* np.save leaves main().
Main_FourierEncrypt ==
    /\ pc = "transform"
    /\ choice = <<"2">>
    /\ operation = <<"e">>
    /\ LET e == encrypt_fourier(disk, img_array, spectrum_file, writable)
       IN  /\ disk' = e.disk
           /\ result' = e.ret
           /\ calls' = Append(calls, Call("encrypt_fourier", ~e.raised, NoKey, TRUE))
           /\ pc' = IF e.raised THEN "crashed" ELSE "save"
    /\ mode' = "L"
    /\ UNCHANGED <<honly, disk0, writable, choice, operation, path, key,
                   spectrum_file, output, img_array, console, retries>>

\* if result is not None: save_image(...)
AfterDecrypt(res) == IF res # None THEN "save" ELSE "done"

\* result = decrypt_fourier(spectrum_file)
Main_FourierDecrypt ==
    /\ pc = "transform"
    /\ choice = <<"2">>
    /\ operation = <<"d">>
    /\ LET shape == PlaneShape(disk[spectrum_file])
       IN  \E err \in ErrFields(shape[1], shape[2]), build \in Builds :
              LET d == decrypt_fourier(disk, spectrum_file, err, build)
              IN  /\ result' = d
                  /\ console' = IF d = None THEN Say("err_fourier") ELSE console
                  /\ calls' = Append(calls,
                                     Call("decrypt_fourier", d # None, NoKey, TRUE))
                  /\ pc' = AfterDecrypt(d)
    /\ mode' = "L"
    /\ UNCHANGED <<honly, disk, disk0, writable, choice, operation, path, key,
                   spectrum_file, output, img_array, retries>>

\* lap = apply_laplacian(img_array)
Main_Laplacian ==
    /\ pc = "transform"
    /\ choice = <<"3">>
    /\ \E build \in Builds : result' = apply_laplacian(img_array, build)
    /\ calls' = Append(calls, Call("apply_laplacian", TRUE, NoKey, TRUE))
    /\ pc' = "save"
    /\ mode' = "L"
    /\ UNCHANGED <<honly, disk, disk0, writable, choice, operation, path, key,
                   spectrum_file, output, img_array, console, retries>>

\* save_image(result, mode, output), after which main() returns.
Main_Save ==
    /\ pc = "save"
    /\ LET sv == save_image(disk, result, mode, output, writable)
       IN  /\ disk' = sv.disk
           /\ console' = Say(sv.msg)
           /\ calls' = Append(calls, Call("save_image", sv.wrote, NoKey, mode = "L"))
    /\ pc' = "done"
    /\ UNCHANGED <<honly, disk0, writable, choice, operation, path, key,
                   spectrum_file, output, img_array, mode, result, retries>>

MainNext ==
    \/ Main_Choice
    \/ Main_Operation
    \/ Main_Path
    \/ Main_Key
    \/ Main_Spectrum
    \/ Main_Output
    \/ Main_Load
    \/ Main_Pixel
    \/ Main_FourierEncrypt
    \/ Main_FourierDecrypt
    \/ Main_Laplacian
    \/ Main_Save

SpecMain == MainInit /\ [][MainNext]_vars

-----------------------------------------------------------------------------
(* Claims about main() *)

Called(fn) == \E i \in 1..Len(calls) : calls[i].fn = fn

PixelCalls == {"encrypt_pixels", "decrypt_pixels"}

\* C3: with the pixel method, a key line that is no integer or is outside
\* 0..255 is turned down before anything runs: get_int_input returns only a
\* value in 0..255, nothing is loaded, transformed or saved until it has, and
\* the pixel transforms are only ever called with a key in 0..255.
C3_KeyValidated ==
    /\ key \in {NoKey} \cup (0..U8Max)
    /\ (choice = <<"1">> /\ key = NoKey) => (calls = << >> /\ disk = disk0)
    /\ (choice = <<"1">> /\ pc \in {"output", "load", "transform", "save"})
          => key \in 0..U8Max
    /\ \A i \in 1..Len(calls) :
          calls[i].fn \in PixelCalls => calls[i].key \in 0..U8Max

\* C3 witness: an out-of-range key and a non-integer were both turned down,
\* and a pixel transform then ran with the key entered after them.
C3_Witness ==
    /\ choice = <<"1">>
    /\ console = <<"range", "invalid_int">>
    /\ pc = "save"
    /\ \E i \in 1..Len(calls) : calls[i].fn \in PixelCalls /\ calls[i].key = key

\* C4: when the source path names no file, load_image returns a null image
\* without raising, main() returns at once, no transform runs and nothing is
\* written: no save_image call, no spectrum file. This is so for the pixel
\* method (PIL load) and for the Fourier encryption and the Laplacian
\* (grayscale load).
C4_MissingSourceAborts ==
    (calls # << >> /\ calls[1].fn = "load_image" /\ disk0[path].kind = "absent")
        => /\ ~calls[1].ok
           /\ calls[1].gray = (choice # <<"1">>)
           /\ img_array = None
           /\ pc = "done"
           /\ Len(calls) = 1
           /\ result = None
           /\ ~Called("save_image")
           /\ \A f \in FileNames : disk[f].kind = disk0[f].kind

\* C4 witness: the Fourier encryption was asked for a missing source, with a
\* spectrum path and an output path that could have been written.
C4_Witness ==
    /\ choice = <<"2">>
    /\ operation = <<"e">>
    /\ path = NoPath
    /\ writable
    /\ output = OutPath
    /\ pc = "done"
    /\ Len(calls) = 1
    /\ calls[1].gray

IsComplex2D(f) == f.kind = "npy" /\ f.ndim = 2 /\ f.dtype = "complex128"

\* C5: in the Fourier decryption, when the spectrum file is missing, corrupt
\* or holds no 2-D complex array, decrypt_fourier returns None and main()
\* never calls save_image, so no output file is produced.
C5_BadSpectrumRejected ==
    (/\ choice = <<"2">>
     /\ operation = <<"d">>
     /\ Called("decrypt_fourier")
     /\ ~IsComplex2D(disk0[spectrum_file]))
        => /\ result = None
           /\ ~Called("save_image")
           /\ disk[output].kind = "absent"

\* C8: no error of a run of main() is fatal: no exception leaves main(), the
\* run ends with main() returned.
C8_NoExceptionEscapes == pc # "crashed"

\* C9: an invalid menu choice or direction makes the driver ask again rather
\* than end or go on: main() never returns on a choice other than 1, 2, 3 or
\* on a direction other than e, d, and no transform runs with such a value.
C9_RepromptsOnInvalid ==
    /\ pc = "done" => choice \in {<<"1">>, <<"2">>, <<"3">>}
    /\ (pc = "done" /\ choice \in {<<"1">>, <<"2">>})
          => operation \in {<<"e">>, <<"d">>}
    /\ (Called("encrypt_pixels") \/ Called("decrypt_pixels"))
          => operation \in {<<"e">>, <<"d">>}

====
